---- MODULE Spec2Model ----
(***************************************************************************)
(* The audio-source cursor and the volume commands of the NVDA add-on      *)
(* "Volume Adjustment" (addon/globalPlugins/volumeAdjustment/__init__.py), *)
(* together with the native audio environment they act on.                 *)
(*                                                                         *)
(* Volume levels are integer percent: the scalar 1.0 is VolMax, and the    *)
(* step 0.01 of GlobalPlugin.__init__ is 1.                                *)
(***************************************************************************)
EXTENDS Integers, Sequences, FiniteSets, TLC

\* ---------------------------------------------------------------- bounds
MaxDevices == 2        \* endpoints the system has
MaxSessions == 2       \* live audio sessions at any one time
MaxVolSessions == 1    \* the same, in the volume specifications
MaxVolCmds == 2        \* volume commands in one run of the volume specifications
NavVolCmds == 1        \* volume commands in one run of the cursor specification
MaxReloads == 1        \* reload threads onSave has started that have not finished

\* ------------------------------------------------------ program constants
VolMax == 100          \* the scalar 1.0, in percent
StepChange0 == 1       \* self._stepChange = 0.01
StepMin == 1           \* SelectOnFocusSpinCtrl(min=1, ...)
StepMax == 20          \* SelectOnFocusSpinCtrl(..., max=20)

ProcNames == {"app.exe", "b.exe"}
NoProc == "<no process>"     \* a session whose s.Process is None
EndpointIds == 1..MaxDevices
InitLevels == {0, 1, VolMax}

Min(a, b) == IF a < b THEN a ELSE b
Max(a, b) == IF a > b THEN a ELSE b
Abs(a) == IF a < 0 THEN -a ELSE a

VARIABLES
    _devices,          \* self._devices: the plugin's registry, a sequence of endpoint ids
    _index,            \* self._index
    _selectedProcess,  \* self._selectedProcess
    _stepChange,       \* self._stepChange, in percent
    initDone,          \* the Thread started by __init__ has run self._devices.initialize
    endpoints,         \* native endpoints: id -> [vol, mute, valid]
    defaultId,         \* the system default endpoint
    hiddenDevices,     \* HiddenSet.hiddenDeviceIds
    hiddenProcesses,   \* HiddenSet.hiddenProcessNames
    sessionList,       \* AudioUtilities.GetAllSessions(): sequence of [proc, vol, mute, valid]
    messages,          \* what the last command handed to ui.message, in order
    raised,            \* the exception the last command let escape to its caller
    last,              \* observer: the last command, its entry index and its target before it ran
    nVolCmds,          \* volume commands this run may still issue
    runStart, runLen,  \* observer: a run of consecutive next() calls over unchanged lists
    rtStart, rtPhase,  \* observer: increase-then-decrease round trip
    devices,           \* core.devices, the registry settings.py imports and re-initializes
    confStep,          \* config.conf[addonName]['step'], in percent
    initThreads,       \* the running initialize() calls: thread -> [pc, reg, hid, buf]
    published,         \* observer: registry -> the hidden set its collection was built from
    fg,                \* the volume command the foreground thread is inside, statement by statement
    navLabel           \* observer: the label the last navigation announced, while the lists stand

progVars == <<_devices, _index, _selectedProcess, _stepChange, initDone>>
envVars == <<endpoints, defaultId, hiddenDevices, hiddenProcesses, sessionList>>
rtVars == <<rtStart, rtPhase>>
runVars == <<runStart, runLen>>
obsVars == <<messages, raised, last, nVolCmds, runVars, rtVars>>
setVars == <<devices, confStep, initThreads, published>>
vars == <<progVars, envVars, obsVars, setVars, fg, navLabel>>

\* ------------------------------------------------------------ the registry
DeviceName(id) == <<"device", id>>

\* len(self._devices)
DeviceCount == Len(_devices)

\* self._devices[i] can be read: Python sequence indexing, negative i counts from the end
CanIndexDevices(i) == -DeviceCount <= i /\ i < DeviceCount

\* self._devices[i], as an endpoint id
DeviceAt(i) == IF i >= 0 THEN _devices[i + 1] ELSE _devices[DeviceCount + i + 1]

\* AudioDevices.initialize(): every endpoint that is not hidden, in enumeration order
VisibleEndpoints(hid) ==
    SelectSeq([i \in 1..MaxDevices |-> i], LAMBDA id: id \notin hid)

\* ------------------------------------------------------------ the sessions
\* [s for s in AudioUtilities.GetAllSessions() if s.Process and s.Process.name]
Sessions == SelectSeq(sessionList, LAMBDA s: s.proc # NoProc)

\* AudioSession(name): position in sessionList of the first live session of that
\* process, 0 when there is none (the inert control)
AudioSession(name) ==
    LET hits == {k \in 1..Len(sessionList): sessionList[k].proc = name}
    IN IF hits = {} THEN 0 ELSE CHOOSE k \in hits: \A j \in hits: k <= j

\* AudioSession(name).title
SessionTitle(name) == <<"session", name>>

\* ------------------------------------------------------------- the cursor
\* script_nextProcess: self._index+1 if self._index<(len(self._devices)+len(sessions)-1) else 0
NextIndexOffByOne(i, total) == IF i < total THEN i + 1 ELSE 0
NextIndexNoWrap(i, total) == i + 1
NextIndex(i, total) == IF i < total - 1 THEN i + 1 ELSE 0

\* script_prevProcess: self._index-1 if self._index>0 else len(self._devices)+len(sessions)-1
PrevIndex(i, total) == IF i > 0 THEN i - 1 ELSE total - 1

\* title = "{default}: {title}".format(...) when the device is the default one
DeviceTitle(id) ==
    IF id = defaultId THEN <<"default", DeviceName(id)>> ELSE <<"plain", DeviceName(id)>>

NoTarget == [kind |-> "none", at |-> 0, vol |-> 0, mute |-> FALSE]
Observe(cmd, tgt) == [cmd |-> cmd, index0 |-> _index, target |-> tgt]

\* selectAudioSource forgetting the selected process when the index is past the
\* sessions
selectAudioSourceForgets(idx, sessions) ==
    IF idx < DeviceCount
    THEN IF CanIndexDevices(idx)
         THEN /\ messages' = <<[kind |-> "title", level |-> -1, title |-> DeviceTitle(DeviceAt(idx))]>>
              /\ raised' = "none"
              /\ UNCHANGED _selectedProcess
         ELSE /\ messages' = <<>>
              /\ raised' = "IndexError"
              /\ UNCHANGED _selectedProcess
    ELSE LET k == idx - DeviceCount
             sel == IF k < Len(sessions) THEN sessions[k + 1].proc ELSE ""
         IN /\ _selectedProcess' = sel
            /\ messages' = <<[kind |-> "title", level |-> -1, title |-> SessionTitle(sel)]>>
            /\ raised' = "none"

\* selectAudioSource(sessions), run with self._index = idx
selectAudioSource(idx, sessions) ==
    IF idx < DeviceCount
    THEN IF CanIndexDevices(idx)
         THEN /\ messages' = <<[kind |-> "title", level |-> -1, title |-> DeviceTitle(DeviceAt(idx))]>>
              /\ raised' = "none"
              /\ UNCHANGED _selectedProcess
         ELSE /\ messages' = <<>>
              /\ raised' = "IndexError"
              /\ UNCHANGED _selectedProcess
    ELSE LET k == idx - DeviceCount
             sel == IF k < Len(sessions) THEN sessions[k + 1].proc ELSE _selectedProcess
         IN /\ _selectedProcess' = sel
            /\ messages' = <<[kind |-> "title", level |-> -1, title |-> SessionTitle(sel)]>>
            /\ raised' = "none"

\* script_nextProcess announcing the source before it moves the index
script_nextProcessAnnouncesFirst ==
    LET sessions == Sessions
        idx == NextIndex(_index, DeviceCount + Len(sessions))
    IN /\ _index' = idx
       /\ selectAudioSource(_index, sessions)
       /\ last' = Observe("next", NoTarget)
       /\ UNCHANGED <<_devices, _stepChange, initDone, envVars, nVolCmds>>

script_nextProcess ==
    LET sessions == Sessions
        idx == NextIndex(_index, DeviceCount + Len(sessions))
    IN /\ _index' = idx
       /\ selectAudioSource(idx, sessions)
       /\ last' = Observe("next", NoTarget)
       /\ UNCHANGED <<_devices, _stepChange, initDone, envVars, nVolCmds>>

script_prevProcess ==
    LET sessions == Sessions
        idx == PrevIndex(_index, DeviceCount + Len(sessions))
    IN /\ _index' = idx
       /\ selectAudioSource(idx, sessions)
       /\ last' = Observe("prev", NoTarget)
       /\ UNCHANGED <<_devices, _stepChange, initDone, envVars, nVolCmds>>

\* ----------------------------------------------------- the volume commands
\* the control AudioSession(name) wraps when no live session matches: level 0.0,
\* not muted, setters without effect
NullControl == [proc |-> NoProc, vol |-> 0, mute |-> FALSE, valid |-> TRUE]

\* announceVolumeLevel(volumeLevel): ui.message("%s %d" % (_("Volume"), int(volumeLevel*100)))
announceVolumeLevel(level) == [kind |-> "volume", level |-> level, title |-> <<>>]

\* announceIsMuted(): ui.message(_("The sound is muted"))
announceIsMuted == [kind |-> "muted", level |-> -1, title |-> <<>>]

\* increaseSession(name), on the session's control c
increaseSessionReturnsOldLevel(c, step) ==
    LET volumeLevel == c.vol
        c1 == IF volumeLevel <= step /\ c.mute THEN [c EXCEPT !.mute = FALSE] ELSE c
        level == Min(VolMax, volumeLevel + step)
    IN [ctl |-> [c1 EXCEPT !.vol = level], level |-> volumeLevel, said |-> <<>>, readback |-> FALSE]
increaseSession(c, step) ==
    LET volumeLevel == c.vol
        c1 == IF volumeLevel <= step /\ c.mute THEN [c EXCEPT !.mute = FALSE] ELSE c
        level == Min(VolMax, volumeLevel + step)
    IN [ctl |-> [c1 EXCEPT !.vol = level], level |-> level, said |-> <<>>, readback |-> FALSE]

\* decreaseSession(name), on the session's control c
decreaseSession(c, step) ==
    LET level == Max(0, c.vol - step)
    IN IF level > 0
       THEN [ctl |-> [c EXCEPT !.vol = level], level |-> level,
             said |-> <<announceVolumeLevel(level)>>, readback |-> FALSE]
       ELSE [ctl |-> [c EXCEPT !.mute = TRUE], level |-> level,
             said |-> <<announceIsMuted>>, readback |-> FALSE]

\* increaseDevice(), on the control c of self._devices[self._index]
increaseDeviceNoClamp(c, step) ==
    LET c1 == IF c.vol <= step /\ c.mute THEN [c EXCEPT !.mute = FALSE] ELSE c
    IN [ctl |-> [c1 EXCEPT !.vol = c.vol + step], level |-> c.vol + step,
        said |-> <<>>, readback |-> FALSE]
increaseDeviceUnmutesBelowStep(c, step) ==
    LET volumeLevel == c.vol
        c1 == IF volumeLevel < step /\ c.mute THEN [c EXCEPT !.mute = FALSE] ELSE c
        level == Min(VolMax, volumeLevel + step)
    IN [ctl |-> [c1 EXCEPT !.vol = level], level |-> level, said |-> <<>>, readback |-> FALSE]
increaseDevice(c, step) ==
    LET volumeLevel == c.vol
        c1 == IF volumeLevel <= step /\ c.mute THEN [c EXCEPT !.mute = FALSE] ELSE c
        level == Min(VolMax, volumeLevel + step)
    IN [ctl |-> [c1 EXCEPT !.vol = level], level |-> level, said |-> <<>>, readback |-> FALSE]

\* decreaseDevice(), on the control c of self._devices[self._index]
decreaseDeviceWritesZero(c, step) ==
    LET level == Max(0, c.vol - step)
    IN IF level > 0
       THEN [ctl |-> [c EXCEPT !.vol = level], level |-> level,
             said |-> <<announceVolumeLevel(level)>>, readback |-> FALSE]
       ELSE [ctl |-> [c EXCEPT !.mute = TRUE, !.vol = 0], level |-> level,
             said |-> <<announceIsMuted>>, readback |-> FALSE]
decreaseDeviceDoubleStep(c, step) ==
    LET level == Max(0, c.vol - 2 * step)
    IN IF level > 0
       THEN [ctl |-> [c EXCEPT !.vol = level], level |-> level,
             said |-> <<announceVolumeLevel(level)>>, readback |-> FALSE]
       ELSE [ctl |-> [c EXCEPT !.mute = TRUE], level |-> level,
             said |-> <<announceIsMuted>>, readback |-> FALSE]
decreaseDevice(c, step) ==
    LET level == Max(0, c.vol - step)
    IN IF level > 0
       THEN [ctl |-> [c EXCEPT !.vol = level], level |-> level,
             said |-> <<announceVolumeLevel(level)>>, readback |-> FALSE]
       ELSE [ctl |-> [c EXCEPT !.mute = TRUE], level |-> level,
             said |-> <<announceIsMuted>>, readback |-> FALSE]

\* script_volumeMax, device branch: unmute if muted, write 1.0, read the level back
volumeMaxDevice(c, step) ==
    LET c1 == IF c.mute THEN [c EXCEPT !.mute = FALSE] ELSE c
    IN [ctl |-> [c1 EXCEPT !.vol = VolMax], level |-> VolMax, said |-> <<>>, readback |-> TRUE]

\* script_volumeMax, session branch
volumeMaxSession(c, step) ==
    LET c1 == IF c.mute THEN [c EXCEPT !.mute = FALSE] ELSE c
    IN [ctl |-> [c1 EXCEPT !.vol = VolMax], level |-> VolMax, said |-> <<>>, readback |-> TRUE]

\* script_volumeMin, device branch: write 0.0, read the level back
volumeMinDeviceMutes(c, step) ==
    [ctl |-> [c EXCEPT !.vol = 0, !.mute = TRUE], level |-> 0, said |-> <<>>, readback |-> TRUE]
volumeMinDevice(c, step) ==
    [ctl |-> [c EXCEPT !.vol = 0], level |-> 0, said |-> <<>>, readback |-> TRUE]

\* script_volumeMin, session branch
volumeMinSession(c, step) ==
    [ctl |-> [c EXCEPT !.vol = 0], level |-> 0, said |-> <<>>, readback |-> TRUE]

TargetOf(kind, at, c) == [kind |-> kind, at |-> at, vol |-> c.vol, mute |-> c.mute]

\* the command let an exception escape: nothing was written, nothing was announced
Escapes(cmd, exc, tgt) ==
    /\ raised' = exc
    /\ messages' = <<>>
    /\ last' = Observe(cmd, tgt)
    /\ UNCHANGED <<endpoints, sessionList>>

\* the device branch of script_volumeUp/Down/Max/Min
DeviceBranch(cmd, c, step) ==
    CASE cmd = "up" -> increaseDevice(c, step)
      [] cmd = "down" -> decreaseDevice(c, step)
      [] cmd = "max" -> volumeMaxDevice(c, step)
      [] cmd = "min" -> volumeMinDevice(c, step)

\* the session branch of script_volumeUp/Down/Max/Min
SessionBranch(cmd, c, step) ==
    CASE cmd = "up" -> increaseSession(c, step)
      [] cmd = "down" -> decreaseSession(c, step)
      [] cmd = "max" -> volumeMaxSession(c, step)
      [] cmd = "min" -> volumeMinSession(c, step)

\* every script, script_volumeDown too, announcing the level after its branch
AnnounceAfterEveryBranch(cmd, level) == <<announceVolumeLevel(level)>>

\* what the script announces after its branch: script_volumeDown nothing, the
\* other three self.announceVolumeLevel(volumeLevel)
AnnounceAfter(cmd, level) ==
    IF cmd = "down" THEN <<>> ELSE <<announceVolumeLevel(level)>>

\* The body shared by script_volumeUp/Down/Max/Min: branch on
\* self._index<len(self._devices), act on the device or on
\* AudioSession(self._selectedProcess), announce.
VolumeCommand(cmd) ==
    /\ nVolCmds > 0
    /\ nVolCmds' = nVolCmds - 1
    /\ UNCHANGED <<progVars, defaultId, hiddenDevices, hiddenProcesses>>
    /\ IF _index < DeviceCount
       THEN IF ~CanIndexDevices(_index)
            THEN Escapes(cmd, "IndexError", NoTarget)
            ELSE LET id == DeviceAt(_index)
                     c == endpoints[id]
                     r == DeviceBranch(cmd, c, _stepChange)
                 IN IF ~c.valid
                    THEN Escapes(cmd, "ControlUnavailable", TargetOf("device", id, c))
                    ELSE /\ endpoints' = [endpoints EXCEPT ![id] = r.ctl]
                         /\ messages' = r.said \o AnnounceAfter(cmd, r.level)
                         /\ raised' = "none"
                         /\ last' = Observe(cmd, TargetOf("device", id, c))
                         /\ UNCHANGED sessionList
       ELSE LET k == AudioSession(_selectedProcess)
            IN IF k = 0
               THEN LET r == SessionBranch(cmd, NullControl, _stepChange)
                    IN /\ messages' = r.said \o AnnounceAfter(cmd, IF r.readback THEN NullControl.vol ELSE r.level)
                       /\ raised' = "none"
                       /\ last' = Observe(cmd, TargetOf("null", 0, NullControl))
                       /\ UNCHANGED <<endpoints, sessionList>>
               ELSE LET c == sessionList[k]
                        r == SessionBranch(cmd, c, _stepChange)
                    IN IF ~c.valid
                       THEN Escapes(cmd, "ControlUnavailable", TargetOf("session", k, c))
                       ELSE /\ sessionList' = [sessionList EXCEPT ![k] = r.ctl]
                            /\ messages' = r.said \o AnnounceAfter(cmd, r.level)
                            /\ raised' = "none"
                            /\ last' = Observe(cmd, TargetOf("session", k, c))
                            /\ UNCHANGED endpoints

script_volumeUp == VolumeCommand("up")
script_volumeDown == VolumeCommand("down")
script_volumeMax == VolumeCommand("max")
script_volumeMin == VolumeCommand("min")

\* ------------------------------------------------------- the environment
Quiet(cmd) ==
    /\ messages' = <<>>
    /\ raised' = "none"
    /\ last' = Observe(cmd, NoTarget)
    /\ UNCHANGED nVolCmds

\* Thread(target=self._devices.initialize).start(), when the thread runs
Initialize ==
    /\ ~initDone
    /\ initDone' = TRUE
    /\ _devices' = VisibleEndpoints(hiddenDevices)
    /\ Quiet("initialize")
    /\ UNCHANGED <<_index, _selectedProcess, _stepChange, envVars>>

\* a process starts playing audio: its session joins the enumeration, at one of
\* the given levels and mute states
SessionStartWith(procs, levels, mutes, most) ==
    /\ Len(sessionList) < most
    /\ \E p \in procs, v \in levels, m \in mutes:
          sessionList' = Append(sessionList, [proc |-> p, vol |-> v, mute |-> m, valid |-> TRUE])
    /\ Quiet("env")
    /\ UNCHANGED <<progVars, endpoints, defaultId, hiddenDevices, hiddenProcesses>>

\* a new session starts at full level, not muted
SessionStart == SessionStartWith(ProcNames \cup {NoProc}, {VolMax}, {FALSE}, MaxSessions)

\* a session of app.exe starts at a level and mute state the process set earlier
SessionStartAtLevel == SessionStartWith({"app.exe"}, InitLevels, BOOLEAN, MaxVolSessions)

\* a session of app.exe starts at full level, not muted
SessionStartApp == SessionStartWith({"app.exe"}, {VolMax}, {FALSE}, MaxVolSessions)

RemoveAt(s, k) == SubSeq(s, 1, k - 1) \o SubSeq(s, k + 1, Len(s))

\* a session leaves the enumeration
SessionExit ==
    /\ \E k \in 1..Len(sessionList): sessionList' = RemoveAt(sessionList, k)
    /\ Quiet("env")
    /\ UNCHANGED <<progVars, endpoints, defaultId, hiddenDevices, hiddenProcesses>>

\* the process behind a session exits while the session is still enumerated:
\* its volume interface no longer answers
ProcessExit ==
    /\ \E k \in 1..Len(sessionList):
          /\ sessionList[k].valid
          /\ sessionList' = [sessionList EXCEPT ![k].valid = FALSE]
    /\ Quiet("env")
    /\ UNCHANGED <<progVars, endpoints, defaultId, hiddenDevices, hiddenProcesses>>

\* an endpoint of the registry is unplugged: the registry still holds its wrapper
DeviceRemoved ==
    /\ \E id \in EndpointIds:
          /\ \E i \in 1..DeviceCount: _devices[i] = id
          /\ endpoints[id].valid
          /\ endpoints' = [endpoints EXCEPT ![id].valid = FALSE]
    /\ Quiet("env")
    /\ UNCHANGED <<progVars, defaultId, hiddenDevices, hiddenProcesses, sessionList>>

\* ------------------------------------------- what the other threads hold
\* the thread __init__ starts, and the threads onSave starts
StartupThread == 0
ReloadThreads == 1..MaxReloads
Threads == {StartupThread} \cup ReloadThreads

\* no initialize() call is running on the thread
IdleThread == [pc |-> "idle", reg |-> "none", hid |-> {}, buf |-> <<>>]

\* published[r] before any initialize() of registry r has completed: no set of
\* endpoint ids
NoSnapshot == {0}

\* the settings panel was never used and no reload is running
NoSettings ==
    /\ devices = <<>>
    /\ confStep = StepChange0
    /\ initThreads = [t \in Threads |-> IdleThread]
    /\ published = [plugin |-> NoSnapshot, core |-> NoSnapshot]

\* the foreground thread is between commands
NoCommand == [cmd |-> "none", pc |-> "idle", len |-> 0, calls |-> <<>>]

\* no navigation has announced a label since the lists last changed
NoLabel == <<"no label">>

\* ------------------------------------------------------ the specification
\* GlobalPlugin.__init__ with a registry that holds every endpoint, hidden or
\* not, from its construction on
InitPluginPreloaded ==
    /\ _devices = [i \in 1..MaxDevices |-> i]
    /\ _index = 0
    /\ _selectedProcess = ""
    /\ _stepChange = StepChange0
    /\ initDone = FALSE
    /\ sessionList = <<>>
    /\ messages = <<>>
    /\ raised = "none"
    /\ last = [cmd |-> "init", index0 |-> 0, target |-> NoTarget]
    /\ runStart = 0 /\ runLen = 0
    /\ rtStart = 0 /\ rtPhase = 0
    /\ NoSettings
    /\ fg = NoCommand
    /\ navLabel = NoLabel

\* GlobalPlugin.__init__: the state after construction, before the thread it
\* starts has filled the registry
InitPlugin ==
    /\ _devices = <<>>
    /\ _index = 0
    /\ _selectedProcess = ""
    /\ _stepChange = StepChange0
    /\ initDone = FALSE
    /\ sessionList = <<>>
    /\ messages = <<>>
    /\ raised = "none"
    /\ last = [cmd |-> "init", index0 |-> 0, target |-> NoTarget]
    /\ runStart = 0 /\ runLen = 0
    /\ rtStart = 0 /\ rtPhase = 0
    /\ NoSettings
    /\ fg = NoCommand
    /\ navLabel = NoLabel

FullUnmuted == [vol |-> VolMax, mute |-> FALSE, valid |-> TRUE]

\* Every hidden set and default endpoint the configuration and the system can
\* hold; every endpoint at full level.
Init ==
    /\ InitPlugin
    /\ nVolCmds = NavVolCmds
    /\ endpoints = [id \in EndpointIds |-> FullUnmuted]
    /\ defaultId = 1
    /\ hiddenDevices \in SUBSET EndpointIds
    /\ hiddenProcesses \in {{}, {"app.exe"}}

\* the observers of the other specifications stay as they are
Idle == UNCHANGED <<runVars, rtVars, setVars, fg, navLabel>>

Next ==
    \/ script_nextProcess /\ Idle
    \/ script_prevProcess /\ Idle
    \/ script_volumeUp /\ Idle
    \/ script_volumeDown /\ Idle
    \/ script_volumeMax /\ Idle
    \/ script_volumeMin /\ Idle
    \/ Initialize /\ Idle
    \/ SessionStart /\ Idle
    \/ SessionExit /\ Idle

Spec == Init /\ [][Next]_vars

\* ----------------------------------- the cursor alone, with runs of next()
\* sessions the navigation counts: len(self._devices)+len(sessions)
Total == DeviceCount + Len(Sessions)

\* a next() call continues the current run, or starts one when none is open or
\* the open one has made Total calls
TrackRun ==
    IF runLen = 0 \/ runLen >= Total
    THEN runStart' = _index /\ runLen' = 1
    ELSE runStart' = runStart /\ runLen' = runLen + 1

\* any other step ends the run
EndRun == runStart' = 0 /\ runLen' = 0

InitWrap ==
    /\ InitPlugin
    /\ nVolCmds = 0
    /\ endpoints = [id \in EndpointIds |-> FullUnmuted]
    /\ defaultId = 1
    /\ hiddenDevices \in SUBSET EndpointIds
    /\ hiddenProcesses = {}

NextWrap ==
    \/ script_nextProcess /\ TrackRun /\ UNCHANGED <<rtVars, setVars, fg, navLabel>>
    \/ script_prevProcess /\ EndRun /\ UNCHANGED <<rtVars, setVars, fg, navLabel>>
    \/ Initialize /\ EndRun /\ UNCHANGED <<rtVars, setVars, fg, navLabel>>
    \/ SessionStart /\ EndRun /\ UNCHANGED <<rtVars, setVars, fg, navLabel>>
    \/ SessionExit /\ EndRun /\ UNCHANGED <<rtVars, setVars, fg, navLabel>>

SpecWrap == InitWrap /\ [][NextWrap]_vars

\* ------------------------------- the volume commands on every kind of control
InitVol ==
    /\ InitPlugin
    /\ nVolCmds = MaxVolCmds
    /\ \E c \in [vol: InitLevels, mute: BOOLEAN, valid: {TRUE}]:
          endpoints = [id \in EndpointIds |-> IF id = 1 THEN c ELSE FullUnmuted]
    /\ defaultId = 1
    /\ hiddenDevices = EndpointIds \ {1}
    /\ hiddenProcesses = {}

NextVol ==
    \/ script_nextProcess /\ Idle
    \/ script_prevProcess /\ Idle
    \/ script_volumeUp /\ Idle
    \/ script_volumeDown /\ Idle
    \/ script_volumeMax /\ Idle
    \/ script_volumeMin /\ Idle
    \/ Initialize /\ Idle
    \/ SessionStartAtLevel /\ Idle
    \/ SessionExit /\ Idle
    \/ ProcessExit /\ Idle
    \/ DeviceRemoved /\ Idle

SpecVol == InitVol /\ [][NextVol]_vars

\* -------------------------------------------------- increase, then decrease
\* the control the cursor is on
CurrentControl ==
    IF _index < DeviceCount THEN endpoints[DeviceAt(_index)]
    ELSE sessionList[AudioSession(_selectedProcess)]

\* The cursor on a device or on the session of app.exe, at any level and mute
\* state, with any step of the allowed range.
InitRT ==
    /\ initDone = TRUE
    /\ _index = 0
    /\ _stepChange \in StepMin..StepMax
    /\ defaultId = 1
    /\ hiddenProcesses = {}
    /\ messages = <<>>
    /\ raised = "none"
    /\ last = [cmd |-> "init", index0 |-> 0, target |-> NoTarget]
    /\ nVolCmds = 2
    /\ runStart = 0 /\ runLen = 0
    /\ rtPhase = 0
    /\ NoSettings
    /\ fg = NoCommand
    /\ navLabel = NoLabel
    /\ \E v \in 0..VolMax, m \in BOOLEAN:
          /\ rtStart = v
          /\ \/ /\ hiddenDevices = EndpointIds \ {1}
                /\ _devices = VisibleEndpoints(hiddenDevices)
                /\ endpoints = [id \in EndpointIds |->
                                  IF id = 1 THEN [vol |-> v, mute |-> m, valid |-> TRUE]
                                  ELSE FullUnmuted]
                /\ sessionList = <<>>
                /\ _selectedProcess = ""
             \/ /\ hiddenDevices = EndpointIds
                /\ _devices = VisibleEndpoints(hiddenDevices)
                /\ endpoints = [id \in EndpointIds |-> FullUnmuted]
                /\ sessionList = <<[proc |-> "app.exe", vol |-> v, mute |-> m, valid |-> TRUE]>>
                /\ _selectedProcess = "app.exe"

RTIncrease ==
    rtPhase = 0 /\ script_volumeUp /\ rtPhase' = 1 /\ UNCHANGED <<rtStart, runVars, setVars, fg, navLabel>>

RTDecrease ==
    rtPhase = 1 /\ script_volumeDown /\ rtPhase' = 2 /\ UNCHANGED <<rtStart, runVars, setVars, fg, navLabel>>

NextRT == RTIncrease \/ RTDecrease

SpecRT == InitRT /\ [][NextRT]_vars

\* ------------------------------------- the settings panel and initialize()
\* the steps the spin control of the panel is saved with in the model
SaveSteps == {StepMin, StepMax}

\* AudioDevices.initialize(hid) has been entered on a thread for registry reg
Building(reg, hid) == [pc |-> "started", reg |-> reg, hid |-> hid, buf |-> <<>>]

\* the background steps leave the plugin's and the observers' state alone
Background(cmd) ==
    /\ Quiet(cmd)
    /\ UNCHANGED <<_index, _selectedProcess, _stepChange, envVars, confStep>>

\* Thread(target=self._devices.initialize).start(): the thread gets to run and
\* enters initialize(), which reads the hidden set
StartupBegin ==
    /\ ~initDone
    /\ initThreads[StartupThread].pc = "idle"
    /\ initThreads' = [initThreads EXCEPT ![StartupThread] = Building("plugin", hiddenDevices)]
    /\ Background("env")
    /\ UNCHANGED <<_devices, initDone, devices, published>>

\* initialize() emptying the collection of the registry itself before it
\* enumerates
InitializeBuildClearsFirst ==
    \E t \in Threads:
        LET th == initThreads[t]
        IN /\ th.pc = "started"
           /\ initThreads' = [initThreads EXCEPT ![t] =
                 [th EXCEPT !.pc = "built", !.buf = VisibleEndpoints(th.hid)]]
           /\ Background("env")
           /\ IF th.reg = "plugin"
              THEN _devices' = <<>> /\ UNCHANGED devices
              ELSE devices' = <<>> /\ UNCHANGED _devices
           /\ UNCHANGED <<initDone, published>>

\* initialize() enumerates the endpoints and keeps those that are not hidden
\* in a collection of its own
InitializeBuild ==
    \E t \in Threads:
        LET th == initThreads[t]
        IN /\ th.pc = "started"
           /\ initThreads' = [initThreads EXCEPT ![t] =
                 [th EXCEPT !.pc = "built", !.buf = VisibleEndpoints(th.hid)]]
           /\ Background("env")
           /\ UNCHANGED <<_devices, initDone, devices, published>>

\* initialize() replaces the collection of its registry by the one it built, in
\* one assignment
InitializePublish ==
    \E t \in Threads:
        LET th == initThreads[t]
        IN /\ th.pc = "built"
           /\ initThreads' = [initThreads EXCEPT ![t] = IdleThread]
           /\ published' = [published EXCEPT ![th.reg] = th.hid]
           /\ IF th.reg = "plugin"
              THEN _devices' = th.buf /\ initDone' = TRUE /\ UNCHANGED devices
              ELSE devices' = th.buf /\ UNCHANGED <<_devices, initDone>>
           /\ Background(IF t = StartupThread THEN "initialize" ELSE "reload")

\* onUpdateDevicesButton: devices.initialize(), run to its end on the thread of
\* the panel, then the check list is filled again
onUpdateDevicesButton ==
    /\ devices' = VisibleEndpoints(hiddenDevices)
    /\ published' = [published EXCEPT !.core = hiddenDevices]
    /\ Background("update")
    /\ UNCHANGED <<_devices, initDone, initThreads>>

\* the ids the check list of the panel offers: self.devs, hidden.devices
\* updated with the devices of core.devices
OfferedDevices == hiddenDevices \cup {devices[i] : i \in 1..Len(devices)}

\* the names the process check list offers: the live sessions' and hidden.processes
OfferedProcesses == {Sessions[k].proc : k \in 1..Len(Sessions)} \cup hiddenProcesses

\* onSave, the spin control holding one of steps: the step goes to config.conf,
\* the checked devices and processes to hidden, and a thread is started on
\* devices.initialize(hidden.devices)
onSaveWith(steps) ==
    \E p \in steps, hd \in SUBSET OfferedDevices, hp \in SUBSET OfferedProcesses,
       t \in ReloadThreads:
        /\ initThreads[t].pc = "idle"
        /\ \A u \in ReloadThreads: u < t => initThreads[u].pc # "idle"
        /\ confStep' = p
        /\ hiddenDevices' = hd
        /\ hiddenProcesses' = hp
        /\ initThreads' = [initThreads EXCEPT ![t] = Building("core", hd)]
        /\ Quiet("save")
        /\ UNCHANGED <<progVars, endpoints, defaultId, sessionList, devices, published>>

onSave == onSaveWith(SaveSteps)

\* onSave when the user left the step as it was
onSaveSameStep == onSaveWith({confStep})

\* the observers of the other specifications stay as they are
IdleObservers == UNCHANGED <<runVars, rtVars, fg, navLabel>>

\* The registries, their initialize() threads and the panel, with navigation
\* reading the plugin's registry in between.
InitSwap ==
    /\ InitPlugin
    /\ nVolCmds = 0
    /\ endpoints = [id \in EndpointIds |-> FullUnmuted]
    /\ defaultId = 1
    /\ hiddenDevices \in SUBSET EndpointIds
    /\ hiddenProcesses = {}

NextSwap ==
    \/ script_nextProcess /\ Idle
    \/ StartupBegin /\ IdleObservers
    \/ InitializeBuild /\ IdleObservers
    \/ InitializePublish /\ IdleObservers
    \/ onUpdateDevicesButton /\ IdleObservers
    \/ onSaveSameStep /\ IdleObservers

SpecSwap == InitSwap /\ [][NextSwap]_vars

\* The step of the settings panel and the volume commands on one device.
InitStep ==
    /\ InitPlugin
    /\ nVolCmds = MaxVolCmds
    /\ \E v \in InitLevels:
          endpoints = [id \in EndpointIds |->
                          IF id = 1 THEN [vol |-> v, mute |-> FALSE, valid |-> TRUE]
                          ELSE FullUnmuted]
    /\ defaultId = 1
    /\ hiddenDevices = EndpointIds \ {1}
    /\ hiddenProcesses = {}

NextStep ==
    \/ script_volumeUp /\ Idle
    \/ script_volumeDown /\ Idle
    \/ Initialize /\ Idle
    \/ onSave /\ IdleObservers
    \/ InitializeBuild /\ IdleObservers
    \/ InitializePublish /\ IdleObservers

SpecStep == InitStep /\ [][NextStep]_vars

\* -------------------------- the volume commands, statement by statement
\* The native calls the device branch of a command makes, each on the device
\* that self._devices[self._index] gives when the call is made: script_volumeMax
\* indexes the registry for GetMute, for SetMute(False) when muted, for the
\* write of 1.0 and for the read-back; script_volumeMin for the write of 0.0
\* and for the read-back. increaseDevice and decreaseDevice index it once and
\* keep the device.
NextCall(cmd, made, muted) ==
    CASE cmd = "max" /\ made = <<>> -> "GetMute"
      [] cmd = "max" /\ made = <<"GetMute">> -> IF muted THEN "SetMute" ELSE "SetVolume"
      [] cmd = "max" /\ made = <<"GetMute", "SetMute">> -> "SetVolume"
      [] cmd = "max" /\ Len(made) >= 2 /\ made[Len(made)] = "SetVolume" -> "GetVolume"
      [] cmd = "min" /\ made = <<>> -> "SetVolume"
      [] cmd = "min" /\ made = <<"SetVolume">> -> "GetVolume"
      [] cmd \in {"up", "down"} /\ made = <<>> -> "whole"
      [] OTHER -> "return"

\* the names of the calls made so far
Made == [i \in 1..Len(fg.calls) |-> fg.calls[i].op]

\* the command is over: the foreground thread is between commands again; the
\* calls it made and the len(self._devices) its branch test read stay on record
\* until the next one
Return(cmd, calls) == fg' = [fg EXCEPT !.pc = "idle", !.calls = calls]

\* script_volume*: the script is entered and evaluates self._index<len(self._devices)
FgEnter(cmd) ==
    /\ fg.pc = "idle"
    /\ nVolCmds > 0
    /\ nVolCmds' = nVolCmds - 1
    /\ fg' = [cmd |-> cmd, calls |-> <<>>, len |-> DeviceCount,
              pc |-> IF _index < DeviceCount THEN "device" ELSE "session"]
    /\ messages' = <<>>
    /\ raised' = "none"
    /\ last' = Observe(cmd, NoTarget)
    /\ UNCHANGED <<progVars, envVars>>

\* the device branch: the next statement reads self._devices[self._index] and
\* makes its native call on what it got
FgDeviceCall ==
    LET cmd == fg.cmd IN
    /\ fg.pc = "device"
    /\ UNCHANGED <<progVars, defaultId, hiddenDevices, hiddenProcesses, nVolCmds>>
    /\ IF ~CanIndexDevices(_index)
       THEN Escapes(cmd, "IndexError", last.target) /\ Return(cmd, fg.calls)
       ELSE LET id == DeviceAt(_index)
                c == endpoints[id]
                op == NextCall(cmd, Made, c.mute)
                calls == Append(fg.calls, [op |-> op, id |-> id])
                tgt == IF fg.calls = <<>> THEN TargetOf("device", id, c) ELSE last.target
            IN IF ~c.valid
               THEN Escapes(cmd, "ControlUnavailable", tgt) /\ Return(cmd, calls)
               ELSE /\ raised' = "none"
                    /\ last' = Observe(cmd, tgt)
                    /\ UNCHANGED sessionList
                    /\ CASE op = "GetMute" ->
                              /\ fg' = [fg EXCEPT !.calls = calls]
                              /\ UNCHANGED <<endpoints, messages>>
                         [] op = "SetMute" ->
                              /\ endpoints' = [endpoints EXCEPT ![id].mute = FALSE]
                              /\ fg' = [fg EXCEPT !.calls = calls]
                              /\ UNCHANGED messages
                         [] op = "SetVolume" ->
                              /\ endpoints' = [endpoints EXCEPT ![id].vol =
                                                  IF cmd = "max" THEN VolMax ELSE 0]
                              /\ fg' = [fg EXCEPT !.calls = calls]
                              /\ UNCHANGED messages
                         [] op = "GetVolume" ->
                              /\ messages' = AnnounceAfter(cmd, c.vol)
                              /\ Return(cmd, calls)
                              /\ UNCHANGED endpoints
                         [] op = "whole" ->
                              LET r == DeviceBranch(cmd, c, _stepChange)
                              IN /\ endpoints' = [endpoints EXCEPT ![id] = r.ctl]
                                 /\ messages' = r.said \o AnnounceAfter(cmd, r.level)
                                 /\ Return(cmd, calls)

\* the session branch: AudioSession(self._selectedProcess) is resolved once and
\* every call is made on it
FgSessionCalls ==
    LET cmd == fg.cmd
        k == AudioSession(_selectedProcess)
        calls == <<[op |-> "whole", id |-> <<"session", k>>]>>
    IN /\ fg.pc = "session"
       /\ UNCHANGED <<progVars, defaultId, hiddenDevices, hiddenProcesses, nVolCmds>>
       /\ Return(cmd, calls)
       /\ IF k = 0
          THEN LET r == SessionBranch(cmd, NullControl, _stepChange)
               IN /\ messages' = r.said \o AnnounceAfter(cmd, IF r.readback THEN NullControl.vol ELSE r.level)
                  /\ raised' = "none"
                  /\ last' = Observe(cmd, TargetOf("null", 0, NullControl))
                  /\ UNCHANGED <<endpoints, sessionList>>
          ELSE LET c == sessionList[k]
                   r == SessionBranch(cmd, c, _stepChange)
               IN IF ~c.valid
                  THEN Escapes(cmd, "ControlUnavailable", TargetOf("session", k, c))
                  ELSE /\ sessionList' = [sessionList EXCEPT ![k] = r.ctl]
                       /\ messages' = r.said \o AnnounceAfter(cmd, r.level)
                       /\ raised' = "none"
                       /\ last' = Observe(cmd, TargetOf("session", k, c))
                       /\ UNCHANGED endpoints

\* a navigation key is handled between two commands, never inside one
Between == fg.pc = "idle"

\* what the foreground steps leave alone
IdleSettings == UNCHANGED <<runVars, rtVars, setVars, navLabel>>

\* The foreground thread inside the volume commands while the startup load
\* runs; one endpoint may start muted.
InitConc ==
    /\ InitPlugin
    /\ nVolCmds = NavVolCmds
    /\ \E m \in BOOLEAN:
          endpoints = [id \in EndpointIds |->
                          IF id = 1 THEN [vol |-> VolMax, mute |-> m, valid |-> TRUE]
                          ELSE FullUnmuted]
    /\ defaultId = 1
    /\ hiddenDevices \in SUBSET EndpointIds
    /\ hiddenProcesses = {}

NextConc ==
    \/ Between /\ script_nextProcess /\ Idle
    \/ Between /\ script_prevProcess /\ Idle
    \/ FgEnter("up") /\ IdleSettings
    \/ FgEnter("down") /\ IdleSettings
    \/ FgEnter("max") /\ IdleSettings
    \/ FgEnter("min") /\ IdleSettings
    \/ FgDeviceCall /\ IdleSettings
    \/ FgSessionCalls /\ IdleSettings
    \/ StartupBegin /\ IdleObservers
    \/ InitializeBuild /\ IdleObservers
    \/ InitializePublish /\ IdleObservers
    \/ SessionStartApp /\ Idle

SpecConc == InitConc /\ [][NextConc]_vars

\* ------------------------------------------------ decrease, then increase
MuteDecrease ==
    rtPhase = 0 /\ script_volumeDown /\ rtPhase' = 1 /\ UNCHANGED <<rtStart, runVars, setVars, fg, navLabel>>

MuteIncrease ==
    rtPhase = 1 /\ script_volumeUp /\ rtPhase' = 2 /\ UNCHANGED <<rtStart, runVars, setVars, fg, navLabel>>

NextMute == MuteDecrease \/ MuteIncrease

SpecMute == InitRT /\ [][NextMute]_vars

\* ------------------------------- a navigation and the commands after it
\* the navigation announced a label: it is the one on record from now on
KeepLabel == navLabel' = IF raised' = "none" THEN messages'[1].title ELSE NoLabel

\* the registry or the session list changed: the label on record is dropped
DropLabel == navLabel' = NoLabel

\* what the steps of this specification leave alone
IdleFollow == UNCHANGED <<runVars, rtVars, setVars, fg>>

InitFollow ==
    /\ InitPlugin
    /\ nVolCmds = MaxVolCmds
    /\ endpoints = [id \in EndpointIds |-> FullUnmuted]
    /\ defaultId = 1
    /\ hiddenDevices = {}
    /\ hiddenProcesses = {}

NextFollow ==
    \/ script_nextProcess /\ KeepLabel /\ IdleFollow
    \/ script_prevProcess /\ KeepLabel /\ IdleFollow
    \/ script_volumeUp /\ UNCHANGED navLabel /\ IdleFollow
    \/ script_volumeDown /\ UNCHANGED navLabel /\ IdleFollow
    \/ script_volumeMax /\ UNCHANGED navLabel /\ IdleFollow
    \/ script_volumeMin /\ UNCHANGED navLabel /\ IdleFollow
    \/ Initialize /\ DropLabel /\ IdleFollow
    \/ SessionStart /\ DropLabel /\ IdleFollow
    \/ SessionExit /\ DropLabel /\ IdleFollow

SpecFollow == InitFollow /\ [][NextFollow]_vars

\* ================================================================ the claims
IsNav == last.cmd \in {"next", "prev"}
IsVolCmd == last.cmd \in {"up", "down", "max", "min"}

\* the last command acted on a device or on a live session, and returned
OnRealControl == last.target.kind \in {"device", "session"} /\ raised = "none"

\* the control the last volume command acted on, before and after it
Before == last.target
After ==
    IF last.target.kind = "device" THEN endpoints[last.target.at]
    ELSE sessionList[last.target.at]

\* C1, as stated: next() sets index to (index+1) mod totalCount for every entry
\* index, a stale one included, totalCount being the total the call computes;
\* with totalCount = 0 the index is 0.
C1_NextIsModulo ==
    last.cmd = "next" =>
        _index = IF Total = 0 THEN 0 ELSE (last.index0 + 1) % Total

\* C1, amended: next() sets index to (index+1) mod totalCount when the entry
\* index is below totalCount, and to 0 when the entry index is stale
\* (>= totalCount) or totalCount = 0.
C1_NextWrapsOrResets ==
    last.cmd = "next" =>
        IF Total >= 1 /\ last.index0 < Total
        THEN _index = (last.index0 + 1) % Total
        ELSE _index = 0

\* a next() entered with a stale index over a list of two or more sources
C1_Witness ==
    /\ last.cmd = "next"
    /\ Total >= 2
    /\ last.index0 >= Total
    /\ (last.index0 + 1) % Total # 0
    /\ _index = 0

\* C2: previous() sets index to (index-1) mod totalCount, wrapping from 0 to
\* totalCount-1; with totalCount = 0 the index stays 0 and the call does nothing.
C2_PrevIsModulo ==
    last.cmd = "prev" =>
        IF Total = 0
        THEN _index = 0 /\ raised = "none"
        ELSE _index = (last.index0 - 1 + Total) % Total

\* C3: index >= 0 in every reachable state; a next() or previous() that saw
\* totalCount >= 1 leaves 0 <= index < totalCount; neither call fails.
C3_IndexInRange ==
    /\ _index >= 0
    /\ IsNav /\ Total >= 1 => _index < Total
    /\ IsNav => raised = "none"

\* C4, as stated: over unchanged lists with totalCount >= 1, totalCount calls of
\* next() return the index (a natural number, as the data model has it) to the
\* value the run started from; with totalCount = 0 next() leaves the index at 0;
\* the label at index 0 of a default device carries the default marker.
C4_Closure ==
    /\ runLen = Total /\ Total >= 1 /\ runStart >= 0 => _index = runStart
    /\ runLen >= 1 /\ Total = 0 => _index = 0
    /\ last.cmd = "next" /\ _index = 0 /\ DeviceCount >= 1 /\ _devices[1] = defaultId
          => messages = <<[kind |-> "title", level |-> -1,
                           title |-> <<"default", DeviceName(_devices[1])>>]>>

\* C4, amended: the same, for a run that starts from an index inside
\* 0..totalCount-1.
C4_ClosureFromValidStart ==
    /\ runLen = Total /\ Total >= 1 /\ 0 <= runStart /\ runStart < Total => _index = runStart
    /\ runLen >= 1 /\ Total = 0 => _index = 0
    /\ last.cmd = "next" /\ _index = 0 /\ DeviceCount >= 1 /\ _devices[1] = defaultId
          => messages = <<[kind |-> "title", level |-> -1,
                           title |-> <<"default", DeviceName(_devices[1])>>]>>

\* two devices and one session: the third next() of a run from index 0 is back
\* at 0 and announces the default device
C4_Witness ==
    /\ DeviceCount = 2 /\ Len(Sessions) = 1
    /\ runLen = 3 /\ runStart = 0 /\ _index = 0
    /\ messages[1].title = <<"default", DeviceName(1)>>

\* live sessions the hidden set lets through
VisibleSessions == SelectSeq(Sessions, LAMBDA s: s.proc \notin hiddenProcesses)

\* C5: a session whose process name is hidden is not navigated: the process the
\* cursor selects is never a hidden one, and a navigation call leaves the index
\* inside the devices plus the visible sessions.
C5_HiddenNotNavigated ==
    /\ _selectedProcess \notin hiddenProcesses
    /\ IsNav /\ DeviceCount + Len(VisibleSessions) >= 1 /\ last.index0 < DeviceCount
          => _index < DeviceCount + Len(VisibleSessions)

\* C6: increase on a device or a live session unmutes it when it was muted at a
\* level <= stepSize, always leaves its level at min(1.0, old level + stepSize),
\* and announces exactly that level.
C6_Increase ==
    last.cmd = "up" /\ OnRealControl =>
        /\ Before.mute /\ Before.vol <= _stepChange => ~After.mute
        /\ After.vol = Min(VolMax, Before.vol + _stepChange)
        /\ messages = <<announceVolumeLevel(After.vol)>>

\* an increase that found the control muted at a level <= stepSize
C6_Witness ==
    /\ last.cmd = "up" /\ OnRealControl
    /\ Before.mute /\ Before.vol <= _stepChange
    /\ ~After.mute /\ After.vol = Before.vol + _stepChange

\* C7: decrease computes level = max(0.0, old level - stepSize); when level > 0.0
\* the control's level becomes level and its mute flag stays; otherwise the
\* control is muted and its stored level is not written.
C7_Decrease ==
    last.cmd = "down" /\ OnRealControl =>
        LET level == Max(0, Before.vol - _stepChange)
        IN IF level > 0
           THEN After.vol = level /\ After.mute = Before.mute
           ELSE After.mute /\ After.vol = Before.vol

\* a decrease on an unmuted control at level 0.0
C7_Witness ==
    /\ last.cmd = "down" /\ OnRealControl
    /\ ~Before.mute /\ Before.vol = 0
    /\ After.mute /\ After.vol = 0

\* C8: increase followed by decrease on the same control leaves its level within
\* stepSize of the starting level and inside [0, 1], for every starting level
\* and every stepSize of the allowed range.
C8_RoundTrip ==
    rtPhase = 2 =>
        /\ Abs(CurrentControl.vol - rtStart) <= _stepChange
        /\ 0 <= CurrentControl.vol /\ CurrentControl.vol <= VolMax

\* a round trip from full level with the largest step: it ends one step lower
C8_Witness ==
    /\ rtPhase = 2
    /\ rtStart = VolMax /\ _stepChange = StepMax
    /\ CurrentControl.vol = VolMax - StepMax

\* C9: setMin sets the control's level to 0.0 and leaves its mute flag as it was.
C9_SetMinKeepsMute ==
    last.cmd = "min" /\ OnRealControl =>
        After.vol = 0 /\ After.mute = Before.mute

\* setMin on an unmuted control above 0.0
C9_Witness ==
    /\ last.cmd = "min" /\ OnRealControl
    /\ ~Before.mute /\ Before.vol > 0
    /\ After.vol = 0 /\ ~After.mute

\* the control the last volume command resolved no longer answers
TargetUnavailable ==
    \/ last.target.kind = "device" /\ ~endpoints[last.target.at].valid
    \/ last.target.kind = "session" /\ ~sessionList[last.target.at].valid

\* C10: a volume command whose native call fails with ControlUnavailable ends as
\* a silent no-op: nothing announced, the cursor as it was, no error escaping to
\* the caller.
C10_UnavailableIsSilent ==
    IsVolCmd /\ TargetUnavailable =>
        /\ raised = "none"
        /\ messages = <<>>
        /\ _index = last.index0

\* ---------------------------------------------------- nothing is selected
\* a step that is a volume-up on the null control succeeds, writes no endpoint
\* and no session, and announces lvl
NullUp(lvl) ==
    (last'.cmd = "up" /\ last'.target.kind = "null") =>
        /\ raised' = "none"
        /\ UNCHANGED <<endpoints, sessionList>>
        /\ messages' = <<announceVolumeLevel(lvl)>>

\* C11, as stated: a volume-up that resolves to the null control does not fail,
\* changes no real control's volume or mute state, and produces level 0.0.
C11_NullUpGivesZero == [][NullUp(0)]_vars

\* C11, amended: a volume-up that resolves to the null control does not fail,
\* changes no real control's volume or mute state, and produces level
\* min(1.0, 0.0 + stepSize), the step, which it announces.
C11_NullUpGivesStep == [][NullUp(Min(VolMax, NullControl.vol + _stepChange))]_vars

\* a volume-up has run with nothing selected and an empty registry
C11_Witness ==
    /\ last.cmd = "up"
    /\ last.target.kind = "null"
    /\ DeviceCount = 0
    /\ _selectedProcess = ""
    /\ raised = "none"
    /\ messages = <<announceVolumeLevel(_stepChange)>>

\* ------------------------------------------------- the registry is swapped
\* the collection registry r holds is the complete one built from hidden set
\* published[r], or the empty one it was constructed with
Complete(r, coll) ==
    coll = IF published[r] = NoSnapshot THEN <<>> ELSE VisibleEndpoints(published[r])

\* C12: at every moment, so at every count()/at(i) read whatever initialize()
\* calls are under way, a registry holds a complete collection, the old one or
\* the new one, and every index below its count can be read.
C12_SwapIsAtomic ==
    /\ Complete("plugin", _devices)
    /\ Complete("core", devices)
    /\ \A i \in 0..(DeviceCount - 1): CanIndexDevices(i) /\ DeviceAt(i) \in EndpointIds

\* a navigation read the plugin's registry, still the old collection, while
\* initialize() held the new one it had built and not yet swapped in
C12_Witness ==
    /\ last.cmd = "next"
    /\ raised = "none"
    /\ \E t \in Threads:
          /\ initThreads[t].pc = "built"
          /\ initThreads[t].reg = "plugin"
          /\ initThreads[t].buf # _devices

\* ------------------------------------------------- the reload after a save
\* no initialize() call is under way and the startup load is done
AllLoaded == initDone /\ \A t \in Threads: initThreads[t].pc = "idle"

\* C14: once the reload that onSave started has completed, with no other load
\* under way, the registry that navigation and the volume commands read holds
\* no device whose id is in hiddenDeviceIds.
C14_ReloadReachesPluginRegistry ==
    (last.cmd = "reload" /\ AllLoaded) =>
        \A i \in 1..DeviceCount: _devices[i] \notin hiddenDevices

\* ------------------------------------ one command, one endpoint
\* C18: at every point of a volume command, the native calls it has made so
\* far all went to one and the same endpoint, whatever initialize() swapped in
\* while it ran.
C18_OneEndpointPerCommand ==
    \A i, j \in 1..Len(fg.calls): fg.calls[i].id = fg.calls[j].id

\* a volume-max or volume-min has made its calls, two or more, on the device
\* the registry gave it after the startup load replaced the collection that
\* its branch test had read
C18_Witness ==
    /\ fg.pc = "idle"
    /\ fg.cmd \in {"max", "min"}
    /\ Len(fg.calls) >= 2
    /\ fg.len = 0
    /\ DeviceCount > 0
    /\ raised = "none"
    /\ Len(messages) = 1

\* ------------------------------ the branch test and the read that follows
\* C13 is about this state: a command is in its device branch and the
\* collection it is about to index is shorter than the one its test read.
C13_ShorterSwapDuringCommand == fg.pc = "device" /\ DeviceCount < fg.len

\* No run reaches it: the registry of the plugin is replaced once, by the
\* startup load, and that replaces the empty collection.
C13_NoShorterSwap == ~C13_ShorterSwapDuringCommand

\* ------------------------------------------------------ the configured step
\* C15: a volume-up adds, and a volume-down that stays above zero subtracts,
\* the step the settings panel saved to the configuration.
C15_StepIsConfigured ==
    /\ (last.cmd = "up" /\ OnRealControl) =>
          After.vol = Min(VolMax, Before.vol + confStep)
    /\ (last.cmd = "down" /\ OnRealControl /\ Before.vol - confStep > 0) =>
          After.vol = Before.vol - confStep

\* ------------------------------------------------------- one announcement
\* C16: a volume command that completes hands exactly one message to
\* ui.message: volume-down the new level when it is above zero and "muted"
\* otherwise, volume-up, volume-max and volume-min the resulting level.
C16_OneAnnouncement ==
    (IsVolCmd /\ raised = "none") =>
        /\ Len(messages) = 1
        /\ IF last.cmd = "down"
           THEN LET level == Max(0, Before.vol - _stepChange)
                IN messages[1] = IF level > 0 THEN announceVolumeLevel(level)
                                 ELSE announceIsMuted
           ELSE /\ messages[1].kind = "volume"
                /\ OnRealControl => messages[1].level = After.vol

\* a volume-down on a real control took its muting branch and said so, once
C16_Witness ==
    /\ last.cmd = "down"
    /\ OnRealControl
    /\ After.mute
    /\ ~Before.mute
    /\ messages = <<announceIsMuted>>

\* ------------------------------------------- a navigation past the sessions
\* the state has the cursor past the devices and past the visible sessions
PastTheSessions == _index >= DeviceCount /\ _index - DeviceCount >= Len(Sessions)

\* a step that is a navigation landing past the sessions raises nothing,
\* leaves the index where next()/previous() put it and keeps the selected
\* process; a step that is a volume command in the session branch acts on the
\* first session of the selected process, or on the null control when it has none
KeepsSelection ==
    /\ (last'.cmd \in {"next", "prev"} /\ PastTheSessions') =>
          /\ raised' = "none"
          /\ _selectedProcess' = _selectedProcess
          /\ _index' = IF last'.cmd = "next" THEN NextIndex(_index, Total)
                       ELSE PrevIndex(_index, Total)
          /\ messages' = <<[kind |-> "title", level |-> -1, title |-> SessionTitle(_selectedProcess)]>>
    /\ (last'.cmd \in {"up", "down", "max", "min"} /\ _index >= DeviceCount) =>
          /\ last'.target.kind \in {"session", "null"}
          /\ last'.target.kind = "session" =>
                last'.target.at = AudioSession(_selectedProcess)
          /\ last'.target.kind = "null" => AudioSession(_selectedProcess) = 0

\* C17: a navigation that lands on index >= deviceCount with index - deviceCount
\* out of range of the sessions it queried does not raise, leaves the index
\* unclamped and the cached process name unchanged; volume commands in the
\* session branch act on the cached name.
C17_KeepsSelection == [][KeepsSelection]_vars

\* previous() has landed past the sessions and a process name selected earlier
\* is still the selected one, and is what was announced
C17_Witness ==
    /\ last.cmd = "prev"
    /\ PastTheSessions
    /\ Total > 0
    /\ raised = "none"
    /\ _selectedProcess \in ProcNames
    /\ messages = <<[kind |-> "title", level |-> -1, title |-> SessionTitle(_selectedProcess)]>>

\* --------------------------------------------- muted by decrease, then raised
\* the decrease that started at rtStart took its muting branch
DecreaseMuted == Max(0, rtStart - _stepChange) = 0

\* C19: after a decrease that took its muting branch the control is muted at
\* its old level, and the increase that follows, with nothing in between, finds
\* it at or below the step and muted, unmutes it and leaves it at
\* min(1.0, volume + stepSize).
C19_MuteIsLifted ==
    /\ (rtPhase = 1 /\ DecreaseMuted) =>
          CurrentControl.mute /\ CurrentControl.vol = rtStart
    /\ (rtPhase = 2 /\ DecreaseMuted) =>
          /\ Before.mute /\ Before.vol <= _stepChange
          /\ ~CurrentControl.mute
          /\ CurrentControl.vol = Min(VolMax, rtStart + _stepChange)
          /\ CurrentControl.vol > 0

\* a control that was audible at exactly the step was muted by decrease and is
\* audible again, one step higher, after the increase
C19_Witness ==
    /\ rtPhase = 2
    /\ rtStart = _stepChange
    /\ last.cmd = "up"
    /\ Before.mute
    /\ ~CurrentControl.mute
    /\ CurrentControl.vol = 2 * _stepChange

\* ----------------------------------- the commands act on what was announced
\* C20: while the registry and the session list stand as the last navigation
\* found them, a volume command acts on the source whose label that navigation
\* announced: the device at self._devices[self._index] when the index is below
\* the device count, otherwise the first session of the selected process, or
\* nothing when that process has no session.
C20_ActsOnAnnounced ==
    (IsVolCmd /\ navLabel # NoLabel) =>
        /\ last.target.kind # "none"
        /\ last.target.kind = "device" <=> _index < DeviceCount
        /\ last.target.kind = "device" =>
              /\ last.target.at = DeviceAt(_index)
              /\ navLabel = DeviceTitle(last.target.at)
        /\ last.target.kind = "session" =>
              /\ sessionList[last.target.at].proc = _selectedProcess
              /\ navLabel = SessionTitle(sessionList[last.target.at].proc)
        /\ last.target.kind = "null" =>
              /\ AudioSession(_selectedProcess) = 0
              /\ navLabel = SessionTitle(_selectedProcess)

\* two volume commands in a row have acted on the second device, the one the
\* navigation before them announced
C20_Witness ==
    /\ IsVolCmd
    /\ nVolCmds = 0
    /\ navLabel # NoLabel
    /\ _index = 1
    /\ last.target.kind = "device"
    /\ navLabel = DeviceTitle(DeviceAt(1))
    /\ raised = "none"

====
